---- MODULE Spec2Model ----
(***************************************************************************)
(* A model of the frame-navigation state machine of wards-djs-addons:      *)
(* MenuManager (src/src/factory/menu.ts), the Paginator it registers       *)
(* (paginator.ts), the paging control row and the collectors               *)
(* (components.ts) and the deletion of the anchor message (message.ts).    *)
(*                                                                         *)
(* A custom_id string is represented by the sequence of its hyphen-free    *)
(* segments, i.e. by what id.split('-') returns: "back-page-0" is          *)
(* <<"back", "page", "0">> and the empty string is <<"">>.  split and join *)
(* are inverse on this representation, so no id is lost or merged.         *)
(***************************************************************************)
EXTENDS Integers, Sequences, FiniteSets, TLC

VARIABLES
    displayFrames,      \* MenuManager.displayFrames: the frame stack
    nextFrameActions,   \* MenuManager.nextFrameActions
    backFrameActions,   \* MenuManager.backFrameActions
    cancelFrameActions, \* MenuManager.cancelFrameActions
    activeContext,      \* MenuManager.activeContext: position index -> context
    pagers,             \* MenuManager.pagers: pager id -> Paginator
    pagingActions,      \* MenuManager.pagingActions
    activeFramePage,    \* MenuManager.activeFramePage
    anchorMsg,          \* MenuManager.anchorMsg is defined
    rendered,           \* what the last call passed to anchorMsg.edit
    lastOp,             \* the last call made on the menu and whether it threw
    buttonCollector,    \* MenuManager.buttons: the button collector
    stringCollector,    \* MenuManager.strings: the string-select collector
    deleteRequests,     \* the calls of anchorMsg.delete() made so far
    pager,              \* a Paginator the caller holds outside any menu
    pagerOp,            \* the last call made on that Paginator and whether it threw
    numberBlocks,       \* the NumberBlockManager instances the caller holds, by name
    blockOp,            \* the last call made on one of them and what it returned
    handlers            \* the menu calls suspended at their awaited edit, oldest first

vars == <<displayFrames, nextFrameActions, backFrameActions, cancelFrameActions,
          activeContext, pagers, pagingActions, activeFramePage, anchorMsg,
          rendered, lastOp, buttonCollector, stringCollector, deleteRequests,
          pager, pagerOp, numberBlocks, blockOp, handlers>>

tables == <<nextFrameActions, backFrameActions, cancelFrameActions>>

\* the collectors and the remote message of a menu
remote == <<buttonCollector, stringCollector, deleteRequests>>

\* the NumberBlockManager instances
blocks == <<numberBlocks, blockOp>>

\* what the caller holds outside the menu: a Paginator and the number blocks
standalone == <<pager, pagerOp, blocks>>

----------------------------------------------------------------------------
(* Bounds of the model *)

\* frameForward is not called on a stack that already holds MaxDepth frames
MaxDepth == 3
\* frameRefresh(true) is not called once the active page holds MaxRows rows or more
MaxRows == 3
\* where frameRefresh(true) is repeated, it is not called once the active page holds
\* MaxPayload rows, the number of action rows a message takes
MaxPayload == 5
\* where the caller also reloads pagers or ends the menu, frameForward is not called
\* on a stack that already holds ShallowDepth frames
ShallowDepth == 2
\* destroy is not called once MaxDestroys deletions of the anchor were requested
MaxDestroys == 2
\* no menu call is started while MaxHandlers calls are suspended at their edit
MaxHandlers == 2
\* every array of a content bundle given to the standalone Paginator holds MaxPages
\* entries, one fewer, or none
MaxPages == 3
\* the caller of the NumberBlockManager instances takes no more than MaxCalls steps
MaxCalls == 3
\* no id is collected while an instance's total is beyond MaxTotal either way
MaxTotal == 100000

----------------------------------------------------------------------------
(* Sequences and maps *)

Includes(seq, x) == \E i \in 1..Len(seq) : seq[i] = x

Last(seq) == seq[Len(seq)]

\* Array.prototype.pop: removes the last element, leaves an empty array empty
Pop(seq) == IF seq = <<>> THEN <<>> ELSE SubSeq(seq, 1, Len(seq) - 1)

EmptyMap == [k \in {} |-> k]

Put(map, key, val) ==
    [k \in (DOMAIN map) \cup {key} |-> IF k = key THEN val ELSE map[k]]

----------------------------------------------------------------------------
(* custom_id strings *)

\* the segments t for which a string beginning with t begins with "cancel"
CancelTokens == {"cancel", "cancelled"}

\* id.startsWith('back-')
StartsWithBackDash(id) == Len(id) >= 2 /\ id[1] = "back"

\* id.startsWith('cancel')
StartsWithCancel(id) == id[1] \in CancelTokens

\* `...${idExtension}` with idExtension = (options?.id) ? `-${options.id}` : ""
WithExtension(base, id) == IF id = <<"">> THEN base ELSE base \o id

----------------------------------------------------------------------------
(* Components *)

Button(style, id) == [type |-> "Button", style |-> style, custom_id |-> id]

StringSelect(id) == [type |-> "StringSelect", style |-> "None", custom_id |-> id]

\* a link button carries a url and no custom_id
LinkButton == [type |-> "Button", style |-> "Link", custom_id |-> <<>>]

spawnBasePagingRow(id) ==
    << Button("Primary", WithExtension(<<"back", "page">>, id)),
       Button("Primary", WithExtension(<<"next", "page">>, id)) >>

----------------------------------------------------------------------------
(* Paginator (paginator.ts) *)

\* A content bundle (PagerDataOptionBase): `keys` are the properties that are
\* `in data`; a property that is not in data holds the empty sequence here.
PagerData(keys, embeds, files, components) ==
    [keys |-> keys, embeds |-> embeds, files |-> files, components |-> components]

\* arr[i] of a JavaScript array of content entries: undefined past the end
At(arr, i) == IF i + 1 <= Len(arr) THEN arr[i + 1] ELSE "undefined"

\* the field initialisers of class Paginator and the constructor's first line
FreshPaginator(controllerRow) ==
    [ currentPage |-> 0,
      finalPage   |-> 0,
      content     |-> {},      \* the keys of indexedContent
      embeds      |-> <<>>,    \* indexedContent['embeds']
      files       |-> <<>>,    \* indexedContent['files']
      hasRows     |-> FALSE,   \* 'components' is a key of indexedRows
      components  |-> <<>>,    \* indexedRows['components']
      activePage  |-> [keys |-> {}, embeds |-> <<>>, files |-> <<>>],
      activeRows  |-> [has |-> FALSE, components |-> <<>>],
      controlRow  |-> controllerRow ]

\* validateCondition of loadPages
ValidateCondition(data) ==
      (IF "embeds" \in data.keys THEN 1 ELSE 0)
    + (IF "files" \in data.keys THEN 2 ELSE 0)
    + (IF "components" \in data.keys THEN 3 ELSE 0)

\* loadPages leaving the cursor where it stands
StorePages_KeepCursor(p, data) ==
    [p EXCEPT !.content = @ \cup (data.keys \cap {"embeds", "files"}),
              !.embeds = IF "embeds" \in data.keys THEN data.embeds ELSE @,
              !.files = IF "files" \in data.keys THEN data.files ELSE @,
              !.hasRows = @ \/ "components" \in data.keys,
              !.components = IF "components" \in data.keys THEN data.components ELSE @]

\* the Paginator after the three `in data` assignments of loadPages
StorePages(p, data) ==
    [p EXCEPT !.currentPage = 0,
              !.content = @ \cup (data.keys \cap {"embeds", "files"}),
              !.embeds = IF "embeds" \in data.keys THEN data.embeds ELSE @,
              !.files = IF "files" \in data.keys THEN data.files ELSE @,
              !.hasRows = @ \/ "components" \in data.keys,
              !.components = IF "components" \in data.keys THEN data.components ELSE @]

\* loadPages assigning finalPage before it compares the lengths
loadPages_AssignFirst(p, data) ==
    LET q == StorePages(p, data)
        n == IF "embeds" \in data.keys THEN Len(q.embeds)
             ELSE IF "files" \in data.keys THEN Len(q.files)
             ELSE Len(q.components)
        mismatch == \E j, k \in data.keys : Len(data[j]) # Len(data[k])
    IN  [err |-> mismatch, p |-> [q EXCEPT !.finalPage = n]]

\* Paginator.loadPages: [err, p] with p the Paginator as the call leaves it
loadPages(p, data) ==
    LET q == StorePages(p, data)
        v == ValidateCondition(data)
        Ok(n) == [err |-> FALSE, p |-> [q EXCEPT !.finalPage = n]]
        Throw == [err |-> TRUE, p |-> q]
    IN  CASE v = 1 -> Ok(Len(q.embeds))
          [] v = 2 -> Ok(Len(q.files))
          [] v = 3 -> IF "embeds" \notin data.keys THEN Throw
                      ELSE IF Len(q.embeds) # Len(q.files) THEN Throw
                      ELSE Ok(Len(q.embeds))
          [] v = 4 -> IF Len(q.embeds) # Len(q.components) THEN Throw
                      ELSE Ok(Len(q.embeds))
          [] v = 5 -> IF Len(q.files) # Len(q.components) THEN Throw
                      ELSE Ok(Len(q.files))
          [] v = 6 -> IF Len(q.embeds) # Len(q.components)
                         \/ Len(q.files) # Len(q.components) THEN Throw
                      ELSE Ok(Len(q.embeds))
          [] OTHER -> [err |-> FALSE, p |-> q]

\* Paginator._updateActivePage: the spread of indexedRows['components'][currentPage]
\* throws when that entry is undefined, after embeds and files were assigned
updateActivePage(p) ==
    LET ap1 == IF "embeds" \in p.content
               THEN [p.activePage EXCEPT !.keys = @ \cup {"embeds"},
                                         !.embeds = <<At(p.embeds, p.currentPage)>>]
               ELSE p.activePage
        ap2 == IF "files" \in p.content
               THEN [ap1 EXCEPT !.keys = @ \cup {"files"},
                                !.files = <<At(p.files, p.currentPage)>>]
               ELSE ap1
        q   == [p EXCEPT !.activePage = ap2]
    IN  IF ~p.hasRows THEN [err |-> FALSE, p |-> q]
        ELSE IF p.currentPage + 1 > Len(p.components) THEN [err |-> TRUE, p |-> q]
        ELSE [err |-> FALSE,
              p |-> [q EXCEPT !.activeRows =
                        [has |-> TRUE,
                         components |-> <<p.controlRow>> \o p.components[p.currentPage + 1]]]]

\* the object the getter `page` returns from a Paginator whose active page is current
PageView(p) ==
    [ defined       |-> TRUE,
      content       |-> p.activePage,
      hasComponents |-> p.activeRows.has,
      components    |-> p.activeRows.components ]

\* get page: [err, p, view]
page(p) ==
    LET u == updateActivePage(p)
    IN  [err |-> u.err, p |-> u.p, view |-> PageView(u.p)]

\* changePage stepping past finalPage instead of wrapping
changePage_NoWrap(p, direction) ==
    IF direction \notin {"next", "back"}
    THEN [err |-> TRUE, p |-> p, view |-> PageView(p)]
    ELSE page([p EXCEPT !.currentPage = IF direction = "next" THEN @ + 1
                                        ELSE IF @ = 0 THEN p.finalPage ELSE @ - 1])

\* changePage stopping at page 0 instead of wrapping backwards
changePage_StopAtZero(p, direction) ==
    IF direction \notin {"next", "back"}
    THEN [err |-> TRUE, p |-> p, view |-> PageView(p)]
    ELSE page([p EXCEPT !.currentPage =
                    IF direction = "next"
                    THEN (IF @ = p.finalPage THEN 0 ELSE @ + 1)
                    ELSE (IF @ = 0 THEN 0 ELSE @ - 1)])

\* changePage taking every direction it does not know for "next"
changePage_AnyDirection(p, direction) ==
    page([p EXCEPT !.currentPage =
              IF direction = "back"
              THEN (IF @ = 0 THEN p.finalPage ELSE @ - 1)
              ELSE (IF @ = p.finalPage THEN 0 ELSE @ + 1)])

\* Paginator.changePage: [err, p, view]
changePage(p, direction) ==
    IF direction \notin {"next", "back"}
    THEN [err |-> TRUE, p |-> p, view |-> PageView(p)]
    ELSE LET q == IF direction = "next"
                  THEN [p EXCEPT !.currentPage =
                            IF p.currentPage = p.finalPage THEN 0 ELSE p.currentPage + 1]
                  ELSE [p EXCEPT !.currentPage =
                            IF p.currentPage = 0 THEN p.finalPage ELSE p.currentPage - 1]
         IN  page(q)

\* new Paginator(pagingData, controllerRow): [err, p]
NewPaginator(pagingData, controllerRow) ==
    LET l == loadPages(FreshPaginator(controllerRow), pagingData)
        u == updateActivePage(l.p)
    IN  IF l.err THEN l ELSE [err |-> u.err, p |-> u.p]

\* a component that has a custom_id (isButtonWithId of baseRowIds)
isButtonWithId(c) == c.style # "Premium" /\ c.style # "Link"

\* get baseRowIds
baseRowIds(p) ==
    LET withId == SelectSeq(p.controlRow, isButtonWithId)
        kept   == SelectSeq(withId, LAMBDA b : ~StartsWithCancel(b.custom_id))
    IN  [i \in 1..Len(kept) |-> kept[i].custom_id]

----------------------------------------------------------------------------
(* MenuManager (menu.ts): classification of ids *)

\* MenuManager.ignoreActions: initialised empty and assigned nowhere
ignoreActions == <<>>

\* the paging actions initialised empty
DefaultPagingActions_Empty == <<>>

\* the initialiser of MenuManager.pagingActions
DefaultPagingActions == << <<"back", "page">>, <<"next", "page">> >>

\* checkIf, evaluated against the pagingActions `paging`
isPagination(paging, id) == Includes(paging, id)

isIgnored(id) == Includes(ignoreActions, id)

isReserved(paging, id) == isPagination(paging, id) \/ isIgnored(id)

\* a back action recognised by its prefix alone
isBackAction_Unreserved(paging, id) == StartsWithBackDash(id)

isBackAction(paging, id) == ~isReserved(paging, id) /\ StartsWithBackDash(id)

isCancelAction(paging, id) == ~isReserved(paging, id) /\ StartsWithCancel(id)

\* a forward action that is anything not reserved
isForwardAction_NotReserved(paging, id) == ~isReserved(paging, id)

isForwardAction(paging, id) ==
    ~isBackAction(paging, id) /\ ~isCancelAction(paging, id) /\ ~isReserved(paging, id)

isButton(c) == c.type = "Button" /\ c.style # "Premium" /\ c.style # "Link"

isStrSelect(c) == c.type = "StringSelect"

\* a row whose string select is followed by buttons that are classified as well
RowActions_ClassifyRest(paging, actionRow, actions) ==
    LET buttons == SelectSeq(actionRow, isButton)
        remainingActions == [i \in 1..Len(buttons) |-> buttons[i].custom_id]
        first == IF isStrSelect(actionRow[1]) THEN <<actionRow[1].custom_id>> ELSE <<>>
    IN  [ next   |-> actions.next \o first
                        \o SelectSeq(remainingActions, LAMBDA id : isForwardAction(paging, id)),
          back   |-> actions.back
                        \o SelectSeq(remainingActions, LAMBDA id : isBackAction(paging, id)),
          cancel |-> actions.cancel
                        \o SelectSeq(remainingActions, LAMBDA id : isCancelAction(paging, id)) ]

\* the ids one action row contributes to the collector `actions`
RowActions(paging, actionRow, actions) ==
    IF isStrSelect(actionRow[1])
    THEN [actions EXCEPT !.next = Append(@, actionRow[1].custom_id)]
    ELSE LET buttons == SelectSeq(actionRow, isButton)
             remainingActions == [i \in 1..Len(buttons) |-> buttons[i].custom_id]
         IN  [ next   |-> actions.next
                            \o SelectSeq(remainingActions, LAMBDA id : isForwardAction(paging, id)),
               back   |-> actions.back
                            \o SelectSeq(remainingActions, LAMBDA id : isBackAction(paging, id)),
               cancel |-> actions.cancel
                            \o SelectSeq(remainingActions, LAMBDA id : isCancelAction(paging, id)) ]

RECURSIVE CollectActions(_, _, _)
CollectActions(paging, actionList, actions) ==
    IF actionList = <<>> THEN actions
    ELSE CollectActions(paging, Tail(actionList), RowActions(paging, Head(actionList), actions))

\* MenuManager._proccessActionList: the three lists it pushes
proccessActionList(paging, actionList) ==
    CollectActions(paging, actionList, [next |-> <<>>, back |-> <<>>, cancel |-> <<>>])

\* An entry of an action table that is `undefined` (frameRestart copies entry 0 of an
\* empty table).  No id has zero segments, so this is the table of no frame.
Undefined == << <<>> >>

\* array[0] of an action table
First(table) == IF table = <<>> THEN Undefined ELSE table[1]

\* table.at(-1)?.includes(id)
LastIncludes(table, id) ==
    table # <<>> /\ Last(table) # Undefined /\ Includes(Last(table), id)

\* MenuManager.analyzeAction, on the tables and paging actions given
analyze(paging, next, back, cancel, id) ==
    IF Includes(paging, id) THEN "PAGE"
    ELSE IF LastIncludes(next, id) THEN "NEXT"
    ELSE IF LastIncludes(back, id) THEN "BACK"
    ELSE IF LastIncludes(cancel, id) THEN "CANCEL"
    ELSE "UNKNOWN"

analyzeAction(id) ==
    analyze(pagingActions, nextFrameActions, backFrameActions, cancelFrameActions, id)

\* get position
position == Len(displayFrames)

\* checkCondition
hasPagers == DOMAIN pagers # {}

hasPager(id) == id \in DOMAIN pagers

----------------------------------------------------------------------------
(* The frames, content bundles and ids the caller passes in *)

\* the display payloads (MenuDataContentBase) used as frames, by name
FrameNames == {"main", "list", "select"}

\* contents.components of a frame
Components(frame) ==
    IF frame = "main"
    THEN << << Button("Success", <<"confirm", "x">>),
               Button("Secondary", <<"back", "x">>),
               Button("Danger", <<"cancel", "x">>),
               LinkButton >> >>
    ELSE IF frame = "list"
    THEN << << StringSelect(<<"back", "menu">>) >>,
            << Button("Primary", <<"back", "page", "0">>),
               Button("Primary", <<"next", "page">>) >> >>
    ELSE << << StringSelect(<<"next", "page">>) >>,
            << StringSelect(<<"cancel", "menu">>),
               Button("Secondary", <<"back", "z">>) >> >>

\* the frame passed to createAnchor as options.contents
RootFrames == {"main"}

\* the frames passed to frameForward
ForwardFrames == {"list"}

\* the ids passed to spawnPageContainer
PagerIds == { <<"0">>, <<"a", "0">> }

\* one page with one row of its own
PageRow == << Button("Secondary", <<"pick", "1">>) >>

\* the content bundles passed to spawnPageContainer: one page of embeds with its
\* rows, and a bundle whose arrays differ in length
PagerBundles ==
    { PagerData({"embeds", "components"}, <<"e1">>, <<>>, << <<PageRow>> >>),
      PagerData({"embeds", "components"}, <<"e1", "e2">>, <<>>, << <<PageRow>> >>) }

\* frameForward's options: absent, or an object whose usePager is undefined, a
\* boolean or a string
NoOptions == [given |-> FALSE, kind |-> "undefined", flag |-> FALSE, id |-> <<>>]

UsePagerUndefined == [given |-> TRUE, kind |-> "undefined", flag |-> FALSE, id |-> <<>>]

UsePagerFlag(b) == [given |-> TRUE, kind |-> "boolean", flag |-> b, id |-> <<>>]

UsePagerId(id) == [given |-> TRUE, kind |-> "string", flag |-> FALSE, id |-> id]

\* the options passed to frameForward: usePager names pager "0" or an id that is
\* never registered
ForwardOptions ==
    {NoOptions, UsePagerUndefined, UsePagerFlag(TRUE), UsePagerId(<<"0">>),
     UsePagerId(<<"missing">>)}

\* `if (options.usePager)`
Truthy(options) ==
    \/ options.kind = "boolean" /\ options.flag
    \/ options.kind = "string" /\ options.id # <<"">>

\* the ids passed to framePageChange: the control-row ids of the pagers, the
\* default paging ids, and an id whose leading segment is no direction
PageChangeIds ==
    UNION { {WithExtension(<<"back", "page">>, id), WithExtension(<<"next", "page">>, id)}
                : id \in PagerIds \cup {<<"">>} }
        \cup { <<"jump", "page", "0">> }

----------------------------------------------------------------------------
(* MenuManager (menu.ts): rendering *)

\* activeFramePage while it is undefined
NoPage ==
    [ defined       |-> FALSE,
      content       |-> [keys |-> {}, embeds |-> <<>>, files |-> <<>>],
      hasComponents |-> FALSE,
      components    |-> <<>> ]

NoRender == [view |-> "none", frame |-> "", rows |-> <<>>]

\* get framePage: the payload and activeFramePage after the getter's concat
framePage(frames, afp) ==
    IF ~afp.defined \/ ~afp.hasComponents
    THEN [ rendered |-> [view |-> "placeholder", frame |-> "", rows |-> <<>>],
           afp      |-> afp ]
    ELSE LET merged == [afp EXCEPT !.components = @ \o Components(Last(frames))]
         IN  [ rendered |-> [view |-> "page", frame |-> Last(frames), rows |-> merged.components],
               afp      |-> merged ]

\* frameRefresh editing the message without looking at the anchor reference
refresh_Unchecked(paging, frames, afp, anchor) ==
    IF ~paging
    THEN [ err      |-> FALSE,
           rendered |-> [view |-> "frame", frame |-> Last(frames),
                         rows |-> Components(Last(frames))],
           afp      |-> afp ]
    ELSE [err |-> FALSE] @@ framePage(frames, afp)

\* MenuManager.frameRefresh on the given stack and active page: [err, rendered, afp]
refresh(paging, frames, afp, anchor) ==
    IF ~anchor THEN [err |-> TRUE, rendered |-> NoRender, afp |-> afp]
    ELSE IF ~paging
    THEN [ err      |-> FALSE,
           rendered |-> [view |-> "frame", frame |-> Last(frames),
                         rows |-> Components(Last(frames))],
           afp      |-> afp ]
    ELSE [err |-> FALSE] @@ framePage(frames, afp)

\* _injectPagingContext showing the pager from its first page
injectPagingContext_Rewind(id) ==
    LET pg == page([pagers[id] EXCEPT !.currentPage = 0])
    IN  [ err           |-> pg.err,
          pagingActions |-> baseRowIds(pagers[id]),
          pagers        |-> [pagers EXCEPT ![id] = pg.p],
          afp           |-> IF pg.err THEN activeFramePage ELSE pg.view ]

\* MenuManager._injectPagingContext(pagers[id]): [err, pagingActions, pagers, afp];
\* the getter `page` may throw after pagingActions was assigned
injectPagingContext(id) ==
    LET pg == page(pagers[id])
    IN  [ err           |-> pg.err,
          pagingActions |-> baseRowIds(pagers[id]),
          pagers        |-> [pagers EXCEPT ![id] = pg.p],
          afp           |-> IF pg.err THEN activeFramePage ELSE pg.view ]

Op(name, err) == [op |-> name, err |-> err]

----------------------------------------------------------------------------
(* MenuManager (menu.ts): construction and operations *)

\* MenuManager.createAnchor / the constructor, with options.contents = root
Construct(root) ==
    LET actions == proccessActionList(DefaultPagingActions, Components(root))
    IN  /\ displayFrames = <<root>>
        /\ nextFrameActions = <<actions.next>>
        /\ backFrameActions = <<actions.back>>
        /\ cancelFrameActions = <<actions.cancel>>
        /\ activeContext = Put(EmptyMap, 0, [display |-> root, pager |-> <<>>])
        /\ pagers = EmptyMap
        /\ pagingActions = DefaultPagingActions
        /\ activeFramePage = NoPage
        /\ anchorMsg = TRUE
        /\ rendered = NoRender
        /\ lastOp = Op("construct", FALSE)

\* a collector as createComponentCollector returns it, or `undefined`
Collector(defined) == [defined |-> defined, stops |-> 0]

\* no Paginator has been constructed outside the menu: the field initialisers alone
Unconstructed == FreshPaginator(<<>>)

\* spawnCollector's result for options without `collectors`: the anchor message, a
\* button collector and no string-select collector
Anchored(withStrings) ==
    /\ buttonCollector = Collector(TRUE)
    /\ stringCollector = Collector(withStrings)
    /\ deleteRequests = 0

\* a call on the standalone Paginator: its name, its argument (a direction, or the
\* properties that are `in data`), the cursor it found and whether it threw
PagerCall(name, arg, keys, from, err) ==
    [op |-> name, arg |-> arg, keys |-> keys, from |-> from, err |-> err]

\* what a NumberBlockManager method returned: `value` when `defined`, else undefined
Returned(defined, value) == [defined |-> defined, value |-> value]

\* a step of the number blocks' caller: its name, the id it handled, what evaluate
\* returned on each instance, and the number of steps so far
BlockCall(name, id, returned, calls) ==
    [op |-> name, id |-> id, returned |-> returned, calls |-> calls]

\* no NumberBlockManager has been constructed
NoBlocks ==
    /\ numberBlocks = EmptyMap
    /\ blockOp = BlockCall("none", <<>>, EmptyMap, 0)

\* no call on the menu is suspended
NoHandlers == handlers = <<>>

NoStandalone ==
    /\ pager = Unconstructed
    /\ pagerOp = PagerCall("none", "", {}, 0, FALSE)
    /\ NoBlocks

Init ==
    /\ \E root \in RootFrames : Construct(root)
    /\ Anchored(FALSE)
    /\ NoHandlers
    /\ NoStandalone

\* the three pushes that end _proccessActionList
PushActions(actions) ==
    /\ nextFrameActions' = Append(nextFrameActions, actions.next)
    /\ backFrameActions' = Append(backFrameActions, actions.back)
    /\ cancelFrameActions' = Append(cancelFrameActions, actions.cancel)

\* a call that throws before it assigned anything
Throws(name) ==
    /\ lastOp' = Op(name, TRUE)
    /\ rendered' = NoRender
    /\ UNCHANGED <<displayFrames, tables, activeContext, pagers, pagingActions,
                   activeFramePage, anchorMsg, remote, standalone>>

\* spawnPageContainer registering over an id that is taken
spawnPageContainer_Overwrite(contents, id) ==
    LET made == NewPaginator(contents, spawnBasePagingRow(id))
    IN  IF made.err THEN Throws("spawnPageContainer")
        ELSE /\ pagers' = Put(pagers, id, made.p)
             /\ activeFramePage' = IF ~activeFramePage.defined THEN page(made.p).view
                                   ELSE activeFramePage
             /\ lastOp' = Op("spawnPageContainer", FALSE)
             /\ rendered' = NoRender
             /\ UNCHANGED <<displayFrames, tables, activeContext, pagingActions, anchorMsg,
                            remote, standalone>>

\* MenuManager.spawnPageContainer(contents, id)
spawnPageContainer(contents, id) ==
    LET made == NewPaginator(contents, spawnBasePagingRow(id))
    IN  IF hasPager(id) \/ made.err THEN Throws("spawnPageContainer")
        ELSE /\ pagers' = Put(pagers, id, made.p)
             /\ activeFramePage' = IF ~activeFramePage.defined THEN page(made.p).view
                                   ELSE activeFramePage
             /\ lastOp' = Op("spawnPageContainer", FALSE)
             /\ rendered' = NoRender
             /\ UNCHANGED <<displayFrames, tables, activeContext, pagingActions, anchorMsg,
                               remote, standalone>>

\* MenuManager.updatePageContainer(contents, id): loadPages on the registered
\* Paginator, which keeps what it assigned when it throws
updatePageContainer(contents, id) ==
    IF ~hasPager(id) THEN Throws("updatePageContainer")
    ELSE LET loaded == loadPages(pagers[id], contents)
         IN  /\ pagers' = [pagers EXCEPT ![id] = loaded.p]
             /\ lastOp' = Op("updatePageContainer", loaded.err)
             /\ rendered' = NoRender
             /\ UNCHANGED <<displayFrames, tables, activeContext, pagingActions,
                            activeFramePage, anchorMsg, remote, standalone>>

\* framePageChange processing the action list of the shown frame once more
framePageChange_Reprocess(fullCustomId) ==
    /\ hasPagers
    /\ PushActions(proccessActionList(pagingActions, Components(Last(displayFrames))))
    /\ lastOp' = Op("framePageChange", FALSE)
    /\ rendered' = NoRender
    /\ UNCHANGED <<displayFrames, activeContext, pagers, pagingActions, activeFramePage,
                   anchorMsg, remote, standalone>>

\* framePageChange rendering the paged view before it fails
framePageChange_RenderFirst(fullCustomId) ==
    /\ lastOp' = Op("framePageChange", TRUE)
    /\ rendered' = refresh(TRUE, displayFrames, activeFramePage, anchorMsg).rendered
    /\ UNCHANGED <<displayFrames, tables, activeContext, pagers, pagingActions,
                   activeFramePage, anchorMsg, remote, standalone>>

\* MenuManager.framePageChange(fullCustomId)
framePageChange(fullCustomId) ==
    LET pagerId == <<Last(fullCustomId)>>
        pagerDirection == fullCustomId[1]
    IN  IF ~hasPagers \/ ~hasPager(pagerId) THEN Throws("framePageChange")
        ELSE LET changed == changePage(pagers[pagerId], pagerDirection)
                 shown == refresh(TRUE, displayFrames, changed.view, anchorMsg)
             IN  /\ pagers' = [pagers EXCEPT ![pagerId] = changed.p]
                 /\ IF changed.err
                    THEN /\ activeFramePage' = activeFramePage
                         /\ rendered' = NoRender
                         /\ lastOp' = Op("framePageChange", TRUE)
                    ELSE /\ activeFramePage' = shown.afp
                         /\ rendered' = shown.rendered
                         /\ lastOp' = Op("framePageChange", shown.err)
                 /\ UNCHANGED <<displayFrames, tables, activeContext, pagingActions, anchorMsg,
                               remote, standalone>>

\* frameForward without a pager: the branches `if (!options)` and `else` of
\* `if (options.usePager)`
ForwardPlain(contents) ==
    LET shown == refresh(FALSE, Append(displayFrames, contents), activeFramePage, anchorMsg)
    IN  /\ PushActions(proccessActionList(pagingActions, Components(contents)))
        /\ activeContext' = Put(activeContext, Len(displayFrames),
                                [display |-> contents, pager |-> <<>>])
        /\ rendered' = shown.rendered
        /\ lastOp' = Op("frameForward", shown.err)
        /\ UNCHANGED <<pagers, pagingActions, activeFramePage, anchorMsg>>

\* frameForward recording the pager id it was given without consulting the registry
ForwardPaged_Unchecked(contents, options) ==
    LET id == IF options.kind = "string" THEN options.id ELSE <<"0">>
        shown == refresh(FALSE, Append(displayFrames, contents), activeFramePage, anchorMsg)
    IN  /\ PushActions(proccessActionList(pagingActions, Components(contents)))
        /\ activeContext' = Put(activeContext, Len(displayFrames),
                                [display |-> contents, pager |-> id])
        /\ rendered' = shown.rendered
        /\ lastOp' = Op("frameForward", shown.err)
        /\ UNCHANGED <<pagers, pagingActions, activeFramePage, anchorMsg>>

\* frameForward with a truthy options.usePager
ForwardPaged(contents, options) ==
    LET id == IF options.kind = "string" THEN options.id ELSE <<"0">>
    IN  IF ~hasPagers \/ (options.kind = "string" /\ ~hasPager(options.id)) \/ ~hasPager(id)
        THEN \* the Error of line 367, or the TypeError of reading pagers['0'].baseRowIds
             /\ lastOp' = Op("frameForward", TRUE)
             /\ rendered' = NoRender
             /\ UNCHANGED <<tables, activeContext, pagers, pagingActions,
                            activeFramePage, anchorMsg>>
        ELSE LET injected == injectPagingContext(id)
                 contextPager == pagers[id]
                 shown == refresh(TRUE, Append(displayFrames, contents), injected.afp,
                                  anchorMsg)
             IN  /\ pagingActions' = injected.pagingActions
                 /\ pagers' = injected.pagers
                 /\ UNCHANGED anchorMsg
                 /\ IF injected.err
                    THEN /\ activeFramePage' = activeFramePage
                         /\ rendered' = NoRender
                         /\ lastOp' = Op("frameForward", TRUE)
                         /\ UNCHANGED <<tables, activeContext>>
                    ELSE /\ PushActions(proccessActionList(injected.pagingActions,
                                Components(contents) \o <<contextPager.controlRow>>))
                         /\ activeContext' = Put(activeContext, Len(displayFrames),
                                                 [display |-> contents, pager |-> id])
                         /\ activeFramePage' = shown.afp
                         /\ rendered' = shown.rendered
                         /\ lastOp' = Op("frameForward", shown.err)

\* frameForward pushing the frame twice
frameForward_PushTwice(contents, options) ==
    /\ Len(displayFrames) < MaxDepth
    /\ displayFrames' = displayFrames \o <<contents, contents>>
    /\ UNCHANGED <<remote, standalone>>
    /\ IF ~options.given \/ ~Truthy(options)
       THEN ForwardPlain(contents)
       ELSE ForwardPaged(contents, options)

\* MenuManager.frameForward(contents, options): the frame is pushed first
frameForward(contents, options) ==
    /\ Len(displayFrames) < MaxDepth
    /\ displayFrames' = Append(displayFrames, contents)
    /\ UNCHANGED <<remote, standalone>>
    /\ IF ~options.given \/ ~Truthy(options)
       THEN ForwardPlain(contents)
       ELSE ForwardPaged(contents, options)

\* MenuManager.frameRefresh(paging)
frameRefresh(paging) ==
    LET shown == refresh(paging, displayFrames, activeFramePage, anchorMsg)
    IN  /\ paging => Len(activeFramePage.components) < MaxRows
        /\ activeFramePage' = shown.afp
        /\ rendered' = shown.rendered
        /\ lastOp' = Op("frameRefresh", shown.err)
        /\ UNCHANGED <<displayFrames, tables, activeContext, pagers, pagingActions, anchorMsg,
                       remote, standalone>>

\* the tail shared by frameBackward and frameRestart: `if (hasContextPager()) ...`,
\* on the stack `frames` the call has just assigned
ShowContext(name, frames) ==
    LET at == Len(frames) - 1
    IN  IF at \notin DOMAIN activeContext
        THEN \* TypeError: activeContext[`${position - 1}`] is undefined
             /\ lastOp' = Op(name, TRUE)
             /\ rendered' = NoRender
             /\ UNCHANGED <<pagers, pagingActions, activeFramePage>>
        ELSE IF activeContext[at].pager # <<>>
        THEN LET injected == injectPagingContext(activeContext[at].pager)
                 shown == refresh(TRUE, frames, injected.afp, anchorMsg)
             IN  /\ pagingActions' = injected.pagingActions
                 /\ pagers' = injected.pagers
                 /\ IF injected.err
                    THEN /\ activeFramePage' = activeFramePage
                         /\ rendered' = NoRender
                         /\ lastOp' = Op(name, TRUE)
                    ELSE /\ activeFramePage' = shown.afp
                         /\ rendered' = shown.rendered
                         /\ lastOp' = Op(name, shown.err)
        ELSE LET shown == refresh(FALSE, frames, activeFramePage, anchorMsg)
             IN  /\ rendered' = shown.rendered
                 /\ lastOp' = Op(name, shown.err)
                 /\ UNCHANGED <<pagers, pagingActions, activeFramePage>>

\* frameBackward returning early on an empty stack only
frameBackward_GuardZero ==
    IF Len(displayFrames) = 0
    THEN /\ lastOp' = Op("frameBackward", FALSE)
         /\ rendered' = NoRender
         /\ UNCHANGED <<displayFrames, tables, activeContext, pagers, pagingActions,
                        activeFramePage, anchorMsg, remote, standalone>>
    ELSE /\ displayFrames' = Pop(displayFrames)
         /\ backFrameActions' = Pop(backFrameActions)
         /\ cancelFrameActions' = Pop(cancelFrameActions)
         /\ nextFrameActions' = Pop(nextFrameActions)
         /\ ShowContext("frameBackward", Pop(displayFrames))
         /\ UNCHANGED <<activeContext, anchorMsg, remote, standalone>>

\* MenuManager.frameBackward()
frameBackward ==
    IF Len(displayFrames) = 1
    THEN /\ lastOp' = Op("frameBackward", FALSE)
         /\ rendered' = NoRender
         /\ UNCHANGED <<displayFrames, tables, activeContext, pagers, pagingActions,
                        activeFramePage, anchorMsg, remote, standalone>>
    ELSE /\ displayFrames' = Pop(displayFrames)
         /\ backFrameActions' = Pop(backFrameActions)
         /\ cancelFrameActions' = Pop(cancelFrameActions)
         /\ nextFrameActions' = Pop(nextFrameActions)
         /\ ShowContext("frameBackward", Pop(displayFrames))
         /\ UNCHANGED <<activeContext, anchorMsg, remote, standalone>>

\* MenuManager.frameRestart()
frameRestart ==
    /\ displayFrames' = <<displayFrames[1]>>
    /\ backFrameActions' = <<First(backFrameActions)>>
    /\ cancelFrameActions' = <<First(cancelFrameActions)>>
    /\ nextFrameActions' = <<First(nextFrameActions)>>
    /\ ShowContext("frameRestart", <<displayFrames[1]>>)
    /\ UNCHANGED <<activeContext, anchorMsg, remote, standalone>>

\* MenuManager.destroy() with handleCatchDelete (message.ts): the deletion is
\* requested and not awaited, then each collector that exists is stopped
destroy ==
    /\ deleteRequests < MaxDestroys
    /\ IF ~anchorMsg
       THEN UNCHANGED remote
       ELSE /\ deleteRequests' = deleteRequests + 1
            /\ buttonCollector' = IF buttonCollector.defined
                                  THEN [buttonCollector EXCEPT !.stops = @ + 1]
                                  ELSE buttonCollector
            /\ stringCollector' = IF stringCollector.defined
                                  THEN [stringCollector EXCEPT !.stops = @ + 1]
                                  ELSE stringCollector
    /\ lastOp' = Op("destroy", FALSE)
    /\ rendered' = NoRender
    /\ UNCHANGED <<displayFrames, tables, activeContext, pagers, pagingActions,
                   activeFramePage, anchorMsg, standalone>>

\* the caller's assignment `menu.anchorMsg = undefined` to the public field
unsetAnchorMsg ==
    /\ anchorMsg
    /\ anchorMsg' = FALSE
    /\ lastOp' = Op("unsetAnchorMsg", FALSE)
    /\ rendered' = NoRender
    /\ UNCHANGED <<displayFrames, tables, activeContext, pagers, pagingActions,
                   activeFramePage, remote, standalone>>

----------------------------------------------------------------------------
(* The menu driven by its caller *)

Next ==
    \/ \E contents \in PagerBundles, id \in PagerIds :
          spawnPageContainer(contents, id) /\ UNCHANGED handlers
    \/ \E id \in PageChangeIds :
          framePageChange(id) /\ UNCHANGED handlers
    \/ \E contents \in ForwardFrames, options \in ForwardOptions :
          frameForward(contents, options) /\ UNCHANGED handlers
    \/ \E paging \in BOOLEAN :
          frameRefresh(paging) /\ UNCHANGED handlers
    \/ frameBackward /\ UNCHANGED handlers
    \/ frameRestart /\ UNCHANGED handlers

Spec == Init /\ [][Next]_vars

----------------------------------------------------------------------------
(* The menu driven by a caller whose frames hold string selects *)

\* the frames passed to frameForward here
SelectFrames == {"list", "select"}

SelectNext ==
    \/ \E contents \in PagerBundles :
          spawnPageContainer(contents, <<"0">>) /\ UNCHANGED handlers
    \/ \E contents \in SelectFrames, options \in {NoOptions, UsePagerId(<<"0">>)} :
          frameForward(contents, options) /\ UNCHANGED handlers
    \/ \E paging \in BOOLEAN :
          frameRefresh(paging) /\ UNCHANGED handlers
    \/ frameBackward /\ UNCHANGED handlers
    \/ frameRestart /\ UNCHANGED handlers

SelectSpec == Init /\ [][SelectNext]_vars

----------------------------------------------------------------------------
(* The menu driven by a caller that attaches either of two pagers *)

\* the content bundles passed to spawnPageContainer here: one page of embeds with
\* its rows, and two pages of embeds alone
OverlayBundles ==
    { PagerData({"embeds", "components"}, <<"e1">>, <<>>, << <<PageRow>> >>),
      PagerData({"embeds"}, <<"e1", "e2">>, <<>>, <<>>) }

\* the options passed to frameForward here: none, or either pager by its id
OverlayOptions == {NoOptions, UsePagerId(<<"0">>), UsePagerId(<<"a", "0">>)}

OverlayNext ==
    \/ \E contents \in OverlayBundles, id \in PagerIds :
          spawnPageContainer(contents, id) /\ UNCHANGED handlers
    \/ \E contents \in ForwardFrames, options \in OverlayOptions :
          frameForward(contents, options) /\ UNCHANGED handlers
    \/ frameBackward /\ UNCHANGED handlers
    \/ frameRestart /\ UNCHANGED handlers

OverlaySpec == Init /\ [][OverlayNext]_vars

----------------------------------------------------------------------------
(* The menu driven by a caller that also reloads its pagers *)

\* the options passed to frameForward here: none, or the pager "0"
RegistryOptions == {NoOptions, UsePagerId(<<"0">>)}

\* the content bundles passed here: two pages of embeds with their rows, and a
\* bundle whose arrays differ in length
RegistryBundles ==
    { PagerData({"embeds", "components"}, <<"e1", "e2">>, <<>>, << <<PageRow>>, <<PageRow>> >>),
      PagerData({"embeds", "components"}, <<"e1", "e2">>, <<>>, << <<PageRow>> >>) }

RegistryNext ==
    \/ \E contents \in RegistryBundles, id \in PagerIds :
          spawnPageContainer(contents, id) /\ UNCHANGED handlers
    \/ \E contents \in RegistryBundles :
          updatePageContainer(contents, <<"0">>) /\ UNCHANGED handlers
    \/ \E id \in PageChangeIds :
          framePageChange(id) /\ UNCHANGED handlers
    \/ \E contents \in ForwardFrames, options \in RegistryOptions :
          Len(displayFrames) < ShallowDepth /\ frameForward(contents, options) /\ UNCHANGED handlers
    \/ \E paging \in BOOLEAN :
          frameRefresh(paging) /\ UNCHANGED handlers
    \/ frameBackward /\ UNCHANGED handlers
    \/ frameRestart /\ UNCHANGED handlers

RegistrySpec == Init /\ [][RegistryNext]_vars

----------------------------------------------------------------------------
(* The menu through to its end: collectors, the anchor reference and destroy *)

\* createAnchor with or without a string-select collector requested
LifeInit ==
    /\ \E root \in RootFrames : Construct(root)
    /\ \E withStrings \in BOOLEAN : Anchored(withStrings)
    /\ NoHandlers
    /\ NoStandalone

LifeNext ==
    \/ \E contents \in PagerBundles :
          spawnPageContainer(contents, <<"0">>) /\ UNCHANGED handlers
    \/ \E direction \in {"next", "back"} :
          framePageChange(<<direction, "page", "0">>) /\ UNCHANGED handlers
    \/ \E contents \in ForwardFrames, options \in RegistryOptions :
          Len(displayFrames) < ShallowDepth /\ frameForward(contents, options) /\ UNCHANGED handlers
    \/ \E paging \in BOOLEAN :
          frameRefresh(paging) /\ UNCHANGED handlers
    \/ frameBackward /\ UNCHANGED handlers
    \/ frameRestart /\ UNCHANGED handlers
    \/ destroy /\ UNCHANGED handlers
    \/ unsetAnchorMsg /\ UNCHANGED handlers

LifeSpec == LifeInit /\ [][LifeNext]_vars

----------------------------------------------------------------------------
(* A caller that refreshes the paged view repeatedly *)

\* MenuManager.frameRefresh(true), called while the message still takes the rows
frameRefreshPaged ==
    LET shown == refresh(TRUE, displayFrames, activeFramePage, anchorMsg)
    IN  /\ Len(activeFramePage.components) < MaxPayload
        /\ activeFramePage' = shown.afp
        /\ rendered' = shown.rendered
        /\ lastOp' = Op("frameRefresh", shown.err)
        /\ UNCHANGED <<displayFrames, tables, activeContext, pagers, pagingActions, anchorMsg,
                       remote, standalone>>

RefreshNext ==
    \/ \E contents \in RegistryBundles :
          spawnPageContainer(contents, <<"0">>) /\ UNCHANGED handlers
    \/ \E direction \in {"next", "back"} :
          framePageChange(<<direction, "page", "0">>) /\ UNCHANGED handlers
    \/ \E contents \in ForwardFrames, options \in RegistryOptions :
          Len(displayFrames) < ShallowDepth /\ frameForward(contents, options) /\ UNCHANGED handlers
    \/ frameRefreshPaged /\ UNCHANGED handlers
    \/ frameBackward /\ UNCHANGED handlers

RefreshSpec == Init /\ [][RefreshNext]_vars

----------------------------------------------------------------------------
(* The menu driven by collector handlers that suspend at the awaited edit *)

\* what is left of the menu except its frame stack, tables, contexts and paging
unstacked == <<anchorMsg, rendered, lastOp, remote, standalone>>

\* a suspended frameForward that records its context once the edit has resolved
Continuation_RecordsContext(name) ==
    /\ activeContext' = IF name = "frameForward"
                        THEN Put(activeContext, position - 1,
                                 [display |-> Last(displayFrames), pager |-> <<>>])
                        ELSE activeContext
    /\ UNCHANGED <<displayFrames, tables, pagers, pagingActions, activeFramePage,
                   unstacked>>

\* what a call does after its awaited anchorMsg.edit has resolved: frameRefresh ends
\* there, and frameForward, frameBackward, frameRestart and framePageChange end with
\* the frameRefresh they await
Continuation(name) ==
    UNCHANGED <<displayFrames, tables, activeContext, pagers, pagingActions,
                activeFramePage, unstacked>>

\* a call runs until it returns, throws or reaches anchorMsg.edit, where it is
\* suspended with the edit in flight
Suspending(call) ==
    /\ Len(handlers) < MaxHandlers
    /\ call
    /\ handlers' = IF rendered'.view # "none" THEN Append(handlers, lastOp'.op)
                   ELSE handlers

\* the edit awaited by the i-th suspended call resolves and the call goes on
Resume(i) ==
    /\ Continuation(handlers[i])
    /\ handlers' = SubSeq(handlers, 1, i - 1) \o SubSeq(handlers, i + 1, Len(handlers))

HandlerNext ==
    \/ \E contents \in PagerBundles :
          spawnPageContainer(contents, <<"0">>) /\ UNCHANGED handlers
    \/ \E direction \in {"next", "back"} :
          Suspending(framePageChange(<<direction, "page", "0">>))
    \/ \E contents \in ForwardFrames, options \in RegistryOptions :
          Len(displayFrames) < ShallowDepth /\ Suspending(frameForward(contents, options))
    \/ Suspending(frameBackward)
    \/ Suspending(frameRestart)
    \/ \E i \in 1..Len(handlers) : Resume(i)

HandlerSpec == Init /\ [][HandlerNext]_vars

----------------------------------------------------------------------------
(* A Paginator used without a menu (paginator.ts, the example of changePage) *)

\* the menu, which is left alone here
menu == <<displayFrames, tables, activeContext, pagers, pagingActions, activeFramePage,
          anchorMsg, rendered, lastOp, remote, handlers>>

EmbedNames == <<"e1", "e2", "e3", "e4", "e5">>

FileNames == <<"f1", "f2", "f3", "f4", "f5">>

\* n embeds, n files, and the component rows of n pages
Embeds(n) == SubSeq(EmbedNames, 1, n)

Files(n) == SubSeq(FileNames, 1, n)

Rows(n) == [i \in 1..n |-> <<PageRow>>]

\* the lengths of the arrays given
PageCounts == {0, MaxPages - 1, MaxPages}

\* the content bundles given to the Paginator: every choice of the properties
\* embeds, files and components, each array of one of the lengths PageCounts
PagerLoads ==
    UNION { { PagerData(keys,
                        IF "embeds" \in keys THEN Embeds(a) ELSE <<>>,
                        IF "files" \in keys THEN Files(b) ELSE <<>>,
                        IF "components" \in keys THEN Rows(c) ELSE <<>>)
                : a \in PageCounts, b \in PageCounts, c \in PageCounts }
            : keys \in SUBSET {"embeds", "files", "components"} }

\* the directions given to changePage: the two it knows, and two it does not
Directions == {"next", "back", "jump", ""}

\* new Paginator(pagingData) returned, with the default control row
PagerInit ==
    /\ \E root \in RootFrames : Construct(root)
    /\ Anchored(FALSE)
    /\ NoHandlers
    /\ \E data \in PagerLoads :
          LET made == NewPaginator(data, spawnBasePagingRow(<<"">>))
          IN  /\ ~made.err
              /\ pager = made.p
              /\ pagerOp = PagerCall("new", "", data.keys, 0, FALSE)
    /\ NoBlocks

\* pager.loadPages(data)
PagerLoadPages(data) ==
    LET loaded == loadPages(pager, data)
    IN  /\ pager' = loaded.p
        /\ pagerOp' = PagerCall("loadPages", "", data.keys, pager.currentPage, loaded.err)
        /\ UNCHANGED <<menu, blocks>>

\* pager.changePage(direction)
PagerChangePage(direction) ==
    LET changed == changePage(pager, direction)
    IN  /\ pager' = changed.p
        /\ pagerOp' = PagerCall("changePage", direction, {}, pager.currentPage, changed.err)
        /\ UNCHANGED <<menu, blocks>>

\* pager.page
PagerPage ==
    LET got == page(pager)
    IN  /\ pager' = got.p
        /\ pagerOp' = PagerCall("page", "", {}, pager.currentPage, got.err)
        /\ UNCHANGED <<menu, blocks>>

PagerNext ==
    \/ \E data \in PagerLoads : PagerLoadPages(data)
    \/ \E direction \in Directions : PagerChangePage(direction)
    \/ PagerPage

PagerSpec == PagerInit /\ [][PagerNext]_vars

----------------------------------------------------------------------------
(* NumberBlockManager *)

\* SignCaller.callers[sign].applySign(t, n)
applySign(sign, t, n) ==
    CASE sign = "minus" -> t - n
      [] sign = "mult" -> t * n
      [] sign = "plus" -> t + n

prefixes == <<"minus", "minus", "mult", "plus", "plus">>

valuesTable ==
    << <<"10", "1", "10", "1", "10">>,
       <<"100", "25", "100", "25", "100">>,
       <<"10k", "1k", "1k", "1k", "10k">> >>

styles == <<"Primary", "Primary", "Secondary", "Primary", "Primary">>

\* the action rows of a number block: `rows` rows of five arithmetic buttons with the
\* id [prefix, value, controlId].join('-'), then the control row
spawnNumberBlockRows(rows, controlId) ==
    [row \in 1..rows |->
        [rowIdx \in 1..Len(valuesTable[row]) |->
            Button(styles[rowIdx],
                   <<prefixes[rowIdx], valuesTable[row][rowIdx]>> \o controlId)]]
        \o << << Button("Secondary", <<"back">> \o controlId),
                 Button("Success", <<"confirm">> \o controlId),
                 Button("Danger", <<"reset">> \o controlId) >> >>

\* rows.map(row => row.components.map(c => c.custom_id)).flat()
RECURSIVE FlatIds(_)
FlatIds(rows) ==
    IF rows = <<>>
    THEN <<>>
    ELSE [c \in 1..Len(Head(rows)) |-> Head(rows)[c].custom_id] \o FlatIds(Tail(rows))

\* new NumberBlockManager({rows, controlId})
NumberBlockManager(rows, controlId) ==
    LET made == spawnNumberBlockRows(rows, controlId)
    IN  [options |-> [rows |-> rows, controlId |-> controlId],
         activeBlockRows |-> made,
         activeBlockIds |-> FlatIds(made),
         activeNumberTotal |-> 0]

\* the characters of a value string
Characters(value) ==
    CASE value = "1" -> <<"1">>
      [] value = "10" -> <<"1", "0">>
      [] value = "25" -> <<"2", "5">>
      [] value = "100" -> <<"1", "0", "0">>
      [] value = "1k" -> <<"1", "k">>
      [] value = "10k" -> <<"1", "0", "k">>

\* id.indexOf("k"), counted from 0; -1 when there is none
IndexOfK(chars) ==
    IF Includes(chars, "k")
    THEN (CHOOSE i \in 1..Len(chars) :
              chars[i] = "k" /\ \A j \in 1..(i - 1) : chars[j] # "k") - 1
    ELSE -1

DigitValue(char) ==
    CASE char = "0" -> 0
      [] char = "1" -> 1
      [] char = "2" -> 2
      [] char = "5" -> 5

\* Number(string) of a string of decimal digits; Number("") is 0
RECURSIVE NumberOf(_)
NumberOf(chars) ==
    IF chars = <<>>
    THEN 0
    ELSE 10 * NumberOf(Pop(chars)) + DigitValue(Last(chars))

\* Number(id.includes("k") ? id.slice(0, id.indexOf("k")) + "000" : id)
applyConversion(id) ==
    LET chars == Characters(id)
    IN  NumberOf(IF Includes(chars, "k")
                 THEN SubSeq(chars, 1, IndexOfK(chars)) \o <<"0", "0", "0">>
                 ELSE chars)

\* _handleEvaluation(fullId): the total after the sign of splitId[0] is applied with
\* the converted splitId[1]
handleEvaluation(nb, fullId) ==
    [nb EXCEPT !.activeNumberTotal =
        applySign(fullId[1], nb.activeNumberTotal, applyConversion(fullId[2]))]

\* splitId[index] === controlId, index counted from 0: a piece of a split string
\* holds no hyphen, and an index past the end gives undefined
PieceIsControlId(nb, splitId, index) ==
    index + 1 <= Len(splitId) /\ nb.options.controlId = <<splitId[index + 1]>>

\* what evaluate returns: nothing, or the total
Nothing(nb) == [nb |-> nb, defined |-> FALSE, value |-> 0]

Total(nb) == [nb |-> nb, defined |-> TRUE, value |-> nb.activeNumberTotal]

\* evaluate without the comparison of the controlId piece
evaluate_NoControlCheck(nb, fullId) ==
    IF ~Includes(nb.activeBlockIds, fullId)
    THEN Nothing(nb)
    ELSE IF fullId[1] \in {"minus", "mult", "plus"}
         THEN Total(handleEvaluation(nb, fullId))
         ELSE IF fullId[1] = "reset"
              THEN Total([nb EXCEPT !.activeNumberTotal = 0])
              ELSE Total(nb)

\* evaluate(fullId)
evaluate(nb, fullId) ==
    IF ~Includes(nb.activeBlockIds, fullId)
    THEN Nothing(nb)
    ELSE IF \/ fullId[1] # "reset" /\ ~PieceIsControlId(nb, fullId, 2)
            \/ fullId[1] = "reset" /\ ~PieceIsControlId(nb, fullId, 1)
         THEN Nothing(nb)
         ELSE IF fullId[1] \in {"minus", "mult", "plus"}
              THEN Total(handleEvaluation(nb, fullId))
              ELSE IF fullId[1] = "reset"
                   THEN Total([nb EXCEPT !.activeNumberTotal = 0])
                   ELSE Total(nb)

\* the controlId given to the second instance: one word, two words joined by a
\* hyphen, or the empty string
OtherControlIds == { <<"other">>, <<"my", "amount">>, <<"">> }

\* the total the caller assigns through the setter
AssignedTotals == {500}

\* ids that no instance generated
ForeignIds == { <<"plus", "7", "amount">>, <<"plus", "10">>, <<"stray">> }

\* two instances: new NumberBlockManager() and
\* new NumberBlockManager({rows: 1, controlId}) with another controlId
NumberInit ==
    /\ \E root \in RootFrames : Construct(root)
    /\ Anchored(FALSE)
    /\ NoHandlers
    /\ pager = Unconstructed
    /\ pagerOp = PagerCall("none", "", {}, 0, FALSE)
    /\ \E controlId \in OtherControlIds :
          numberBlocks = [a |-> NumberBlockManager(3, <<"amount">>),
                          b |-> NumberBlockManager(1, controlId)]
    /\ blockOp = BlockCall("new", <<>>, EmptyMap, 0)

\* every id delivered to the collector handlers
DeliveredIds ==
    UNION { { numberBlocks[who].activeBlockIds[i] :
                  i \in 1..Len(numberBlocks[who].activeBlockIds) }
            : who \in DOMAIN numberBlocks } \cup ForeignIds

\* the collector's handler: every instance evaluates the collected id
BlockCollect(fullId) ==
    LET got == [who \in DOMAIN numberBlocks |-> evaluate(numberBlocks[who], fullId)]
    IN  /\ blockOp.calls < MaxCalls
        /\ \A who \in DOMAIN numberBlocks :
              numberBlocks[who].activeNumberTotal \in -MaxTotal..MaxTotal
        /\ numberBlocks' = [who \in DOMAIN numberBlocks |-> got[who].nb]
        /\ blockOp' = BlockCall("evaluate", fullId,
                                [who \in DOMAIN numberBlocks |->
                                    Returned(got[who].defined, got[who].value)],
                                blockOp.calls + 1)
        /\ UNCHANGED <<menu, pager, pagerOp>>

\* numberBlocks[who].total = newTotal
BlockSetTotal(who, newTotal) ==
    /\ blockOp.calls < MaxCalls
    /\ numberBlocks' = [numberBlocks EXCEPT ![who].activeNumberTotal = newTotal]
    /\ blockOp' = BlockCall("total", <<>>, EmptyMap, blockOp.calls + 1)
    /\ UNCHANGED <<menu, pager, pagerOp>>

NumberNext ==
    \/ \E fullId \in DeliveredIds : BlockCollect(fullId)
    \/ \E who \in DOMAIN numberBlocks, newTotal \in AssignedTotals :
          BlockSetTotal(who, newTotal)

NumberSpec == NumberInit /\ [][NumberNext]_vars

----------------------------------------------------------------------------
(* Vocabulary of the properties *)

\* the control-row ids spawnPageContainer gives the pager registered under id
ControlRowIds(id) ==
    << WithExtension(<<"back", "page">>, id), WithExtension(<<"next", "page">>, id) >>

\* the custom_ids of a sequence of action rows
RowIds(rows) ==
    UNION { {rows[r][c].custom_id : c \in 1..Len(rows[r])} : r \in 1..Len(rows) }

\* every id a collector can deliver, and one that belongs to no control
KnownIds ==
    UNION { RowIds(Components(f)) : f \in FrameNames }
        \cup PageChangeIds \cup RowIds(<<PageRow>>) \cup { <<"stray">> }

\* the entry of an action table that is index-aligned with the top frame; the empty
\* list when the table has no entry at that position
TopEntry(table) == IF position <= Len(table) THEN table[position] ELSE <<>>

\* the action table built for the root frame at construction
RootActions(root) == proccessActionList(<<<<"back", "page">>, <<"next", "page">>>>, Components(root))

\* the cursor one step from currentPage in the direction given, cyclically
Stepped(p, direction) ==
    IF direction = "next"
    THEN (IF p.currentPage = p.finalPage THEN 0 ELSE p.currentPage + 1)
    ELSE (IF p.currentPage = 0 THEN p.finalPage ELSE p.currentPage - 1)

\* frameForward's options name a pager that cannot be attached: no pager is
\* registered at all, or none under the id given
NamesMissingPager(options) ==
    /\ options.given /\ Truthy(options)
    /\ ~hasPagers \/ (options.kind = "string" /\ ~hasPager(options.id))

----------------------------------------------------------------------------
(* C1 *)

\* C1: a fresh menu is at position 1; every successful frameForward raises position
\* by exactly one (so N of them from a fresh menu give N+1); frameBackward lowers
\* position by exactly one while position > 1; and position is never below 1.
C1_PositionCounts ==
    /\ position = 1
    /\ [][ /\ (lastOp'.op = "frameForward" /\ ~lastOp'.err)
               => Len(displayFrames') = Len(displayFrames) + 1
           /\ (lastOp'.op = "frameBackward" /\ Len(displayFrames) > 1)
               => Len(displayFrames') = Len(displayFrames) - 1 ]_vars
    /\ [](position >= 1)

\* two successful frameForward calls have taken the menu to position 3
C1_Witness ==
    /\ lastOp = Op("frameForward", FALSE)
    /\ position = 3
    /\ Len(nextFrameActions) = 3

----------------------------------------------------------------------------
(* C2 *)

\* C2: a frameForward whose usePager names no registered pager (or any usePager while
\* no pager is registered) fails and leaves the frame stack, the three action tables
\* and the contexts as they were.
C2_FailedForwardPushesNothing ==
    [][ \A contents \in ForwardFrames, options \in ForwardOptions :
            (NamesMissingPager(options) /\ frameForward(contents, options))
                => /\ lastOp'.err
                   /\ UNCHANGED <<displayFrames, tables, activeContext>> ]_vars

----------------------------------------------------------------------------
(* C3 *)

\* C3: in every reachable state each of the next, back and cancel tables has exactly
\* as many entries as the frame stack has frames.
C3_TablesAligned ==
    /\ Len(nextFrameActions) = Len(displayFrames)
    /\ Len(backFrameActions) = Len(displayFrames)
    /\ Len(cancelFrameActions) = Len(displayFrames)

----------------------------------------------------------------------------
(* C4 *)

\* C4: analyzeAction(id) is PAGE iff id is in pagingActions; otherwise NEXT, BACK or
\* CANCEL by membership of id in the top frame's next, back or cancel table, in that
\* order; otherwise UNKNOWN.
C4_AnalyzeByTopFrame ==
    \A id \in KnownIds :
        analyzeAction(id) =
            IF Includes(pagingActions, id) THEN "PAGE"
            ELSE IF Includes(TopEntry(nextFrameActions), id) THEN "NEXT"
            ELSE IF Includes(TopEntry(backFrameActions), id) THEN "BACK"
            ELSE IF Includes(TopEntry(cancelFrameActions), id) THEN "CANCEL"
            ELSE "UNKNOWN"

----------------------------------------------------------------------------
(* C5 *)

\* C5 as stated: right after construction there is one frame, one action table, one
\* display-only context, no pager, and pagingActions is empty, so no id is PAGE.
C5_FreshPagingEmpty ==
    lastOp.op = "construct" =>
        /\ pagingActions = <<>>
        /\ \A id \in KnownIds : analyzeAction(id) # "PAGE"

\* C5 amended: right after construction there is one frame (the creation options'
\* contents), one action table, one display-only context and no pager, and
\* pagingActions holds exactly the default ids back-page and next-page, so exactly
\* those two ids are classified PAGE.
C5_FreshMenu ==
    lastOp.op = "construct" =>
        /\ Len(displayFrames) = 1 /\ displayFrames[1] \in RootFrames
        /\ nextFrameActions = <<RootActions(displayFrames[1]).next>>
        /\ backFrameActions = <<RootActions(displayFrames[1]).back>>
        /\ cancelFrameActions = <<RootActions(displayFrames[1]).cancel>>
        /\ DOMAIN activeContext = {0}
        /\ activeContext[0] = [display |-> displayFrames[1], pager |-> <<>>]
        /\ DOMAIN pagers = {}
        /\ pagingActions = << <<"back", "page">>, <<"next", "page">> >>
        /\ \A id \in KnownIds :
              analyzeAction(id) = "PAGE" <=> id \in { <<"back", "page">>, <<"next", "page">> }

\* the fresh menu, in which back-page is classified PAGE although no pager exists
C5_Witness ==
    lastOp.op = "construct" /\ DOMAIN pagers = {} /\ analyzeAction(<<"back", "page">>) = "PAGE"

----------------------------------------------------------------------------
(* C6 *)

\* C6: frameBackward with only the root frame left changes neither the stack, the
\* tables, the contexts, pagingActions, the active page nor any pager, and renders
\* nothing.
C6_BackwardAtRootIsNoOp ==
    [][ (lastOp'.op = "frameBackward" /\ Len(displayFrames) = 1)
            => /\ UNCHANGED <<displayFrames, tables, activeContext, pagingActions,
                              activeFramePage, pagers>>
               /\ rendered'.view = "none"
               /\ ~lastOp'.err ]_vars

\* frameBackward has returned at the root without rendering
C6_Witness ==
    lastOp = Op("frameBackward", FALSE) /\ rendered.view = "none" /\ position = 1

----------------------------------------------------------------------------
(* C7 *)

\* C7: frameBackward from depth > 1 removes the top frame and one entry from each of
\* the three tables; then, when the context of the new top position names a pager,
\* pagingActions becomes that pager's control-row ids and the paged view is
\* rendered, and otherwise the plain view of the new top frame is rendered.
C7_BackwardPopsAndRenders ==
    [][ (lastOp'.op = "frameBackward" /\ Len(displayFrames) > 1)
            => LET at == Len(displayFrames) - 2
               IN  /\ displayFrames' = SubSeq(displayFrames, 1, Len(displayFrames) - 1)
                   /\ \A t \in {1, 2, 3} :
                         /\ tables[t] # <<>>
                         /\ tables'[t] = SubSeq(tables[t], 1, Len(tables[t]) - 1)
                   /\ IF at \in DOMAIN activeContext /\ activeContext[at].pager # <<>>
                      THEN /\ pagingActions' = ControlRowIds(activeContext[at].pager)
                           /\ rendered'.view \in {"page", "placeholder"}
                      ELSE /\ rendered'.view = "frame"
                           /\ rendered'.frame = Last(displayFrames') ]_vars

----------------------------------------------------------------------------
(* C8 *)

\* C8: frameRestart leaves exactly the root frame on the stack, exactly the root
\* frame's action table in each of next, back and cancel, and the registry and
\* every pager's cursor as they were.
C8_RestartKeepsRoot ==
    [][ lastOp'.op = "frameRestart"
            => /\ displayFrames' = <<displayFrames[1]>>
               /\ nextFrameActions' = <<RootActions(displayFrames[1]).next>>
               /\ backFrameActions' = <<RootActions(displayFrames[1]).back>>
               /\ cancelFrameActions' = <<RootActions(displayFrames[1]).cancel>>
               /\ DOMAIN pagers' = DOMAIN pagers
               /\ \A id \in DOMAIN pagers :
                     pagers'[id].currentPage = pagers[id].currentPage ]_vars

----------------------------------------------------------------------------
(* C9 *)

\* C9: framePageChange, failing or not, leaves the frame stack, the action tables
\* and the contexts as they were.
C9_PageChangeKeepsStack ==
    [][ lastOp'.op = "framePageChange"
            => UNCHANGED <<displayFrames, tables, activeContext>> ]_vars

\* framePageChange has succeeded over a frame pushed with a pager
C9_Witness ==
    /\ lastOp = Op("framePageChange", FALSE)
    /\ rendered.view = "page"
    /\ position = 2

----------------------------------------------------------------------------
(* C10 *)

\* C10: for every registered pager P, framePageChange with either id of P's control
\* row moves P's cursor one step in the direction named, leaves every other pager's
\* cursor as it was, and renders the paged view.
C10_PageChangeMovesItsPager ==
    [][ \A P \in DOMAIN pagers, direction \in {"next", "back"} :
            framePageChange(WithExtension(<<direction, "page">>, P))
                => /\ pagers'[P].currentPage = Stepped(pagers[P], direction)
                   /\ \A Q \in DOMAIN pagers \ {P} :
                         pagers'[Q].currentPage = pagers[Q].currentPage
                   /\ rendered'.view = "page" ]_vars

----------------------------------------------------------------------------
(* C11 *)

\* C11: framePageChange called while no pager is registered throws, leaves the
\* registry, the active page, pagingActions, the frame stack, the action tables and
\* the contexts as they were, and requests no render.
C11_PageChangeWithoutPagers ==
    [][ \A id \in PageChangeIds :
            (~hasPagers /\ framePageChange(id))
                => /\ lastOp'.err
                   /\ UNCHANGED <<pagers, activeFramePage, pagingActions, displayFrames,
                                  tables, activeContext>>
                   /\ rendered'.view = "none" ]_vars

\* framePageChange has thrown on a menu that has no pager
C11_Witness ==
    lastOp = Op("framePageChange", TRUE) /\ ~hasPagers /\ rendered.view = "none"

----------------------------------------------------------------------------
(* C12 *)

\* what loadPages stores in a Paginator
Stored(p) == <<p.embeds, p.files, p.components, p.content, p.hasRows, p.finalPage>>

\* C12: spawnPageContainer with an id that is already registered throws and leaves
\* the registry exactly as it was (the first Paginator's content and cursor
\* included); and no operation ever removes a registered id or puts another
\* Paginator in its place: the id stays registered with the control row it was
\* constructed with, and what it stores changes only by updatePageContainer.
C12_RegisteredPagerStays ==
    [][ /\ \A contents \in RegistryBundles, id \in PagerIds :
              (hasPager(id) /\ spawnPageContainer(contents, id))
                  => lastOp'.err /\ pagers' = pagers
        /\ \A id \in DOMAIN pagers :
              /\ id \in DOMAIN pagers'
              /\ pagers'[id].controlRow = pagers[id].controlRow
              /\ lastOp'.op # "updatePageContainer"
                    => Stored(pagers'[id]) = Stored(pagers[id]) ]_vars

\* spawnPageContainer has failed on a registry in which every id is taken and a
\* pager's cursor has moved off page 0
C12_Witness ==
    /\ lastOp = Op("spawnPageContainer", TRUE)
    /\ DOMAIN pagers = PagerIds
    /\ \E id \in DOMAIN pagers : pagers[id].currentPage = 1

----------------------------------------------------------------------------
(* C13 *)

\* C13: frameRefresh, with or without paging, leaves the frame stack, the action
\* tables, the contexts and every pager's cursor as they were; and when the anchor
\* message reference is absent it throws and edits nothing.
C13_RefreshKeepsState ==
    [][ lastOp'.op = "frameRefresh"
            => /\ UNCHANGED <<displayFrames, tables, activeContext>>
               /\ DOMAIN pagers' = DOMAIN pagers
               /\ \A id \in DOMAIN pagers :
                     pagers'[id].currentPage = pagers[id].currentPage
               /\ ~anchorMsg => (lastOp'.err /\ rendered'.view = "none") ]_vars

\* frameRefresh has thrown for want of the anchor, on a menu two frames deep whose
\* pager stands on its second page
C13_Witness ==
    /\ lastOp = Op("frameRefresh", TRUE)
    /\ ~anchorMsg
    /\ position = 2
    /\ hasPager(<<"0">>) /\ pagers[<<"0">>].currentPage = 1

----------------------------------------------------------------------------
(* C14 *)

\* C14: destroy() on a live menu requests the deletion of the anchor message once
\* and stops each attached collector once; destroy() on a menu that was destroyed
\* before requests no deletion and stops nothing.
C14_DestroyIsIdempotent ==
    [][ lastOp'.op = "destroy"
            => IF anchorMsg /\ deleteRequests = 0
               THEN /\ deleteRequests' = 1
                    /\ buttonCollector'.stops = 1
                    /\ stringCollector.defined => stringCollector'.stops = 1
               ELSE UNCHANGED remote ]_vars

----------------------------------------------------------------------------
(* C15 *)

\* C15: on a Paginator, whatever loadPages and changePage calls were made,
\* 0 <= currentPage <= finalPage; and after every loadPages that returns, finalPage
\* is the length of each array that was loaded (the arrays of data are the ones the
\* Paginator holds under the same names once loadPages has stored them).
C15_CursorInRange ==
    /\ [](0 <= pager.currentPage /\ pager.currentPage <= pager.finalPage)
    /\ [][ (pagerOp'.op = "loadPages" /\ ~pagerOp'.err)
              => \A k \in pagerOp'.keys : pager'.finalPage = Len(pager'[k]) ]_vars

\* loadPages has returned on a Paginator whose cursor stood at its upper limit,
\* and finalPage is the length of the new, shorter content
C15_Witness ==
    /\ pagerOp.op = "loadPages" /\ ~pagerOp.err
    /\ pagerOp.from = MaxPages
    /\ pager.finalPage = MaxPages - 1
    /\ Len(pager.embeds) = MaxPages - 1

----------------------------------------------------------------------------
(* C16 *)

\* changePage("next") applied n times
RECURSIVE NextTimes(_, _)
NextTimes(p, n) == IF n = 0 THEN p ELSE NextTimes(changePage(p, "next").p, n - 1)

\* C16: changePage("next") sets currentPage to 0 at finalPage and adds one
\* otherwise, changePage("back") sets it to finalPage at 0 and subtracts one
\* otherwise; and from page 0, finalPage + 1 calls of changePage("next") lead back
\* to page 0 and no smaller positive number of calls does.
C16_ChangePageCycles ==
    /\ [][ (pagerOp'.op = "changePage" /\ pagerOp'.arg \in {"next", "back"})
              => pager'.currentPage = Stepped(pager, pagerOp'.arg) ]_vars
    /\ [](pager.currentPage = 0
            => /\ NextTimes(pager, pager.finalPage + 1).currentPage = 0
               /\ \A n \in 1..pager.finalPage : NextTimes(pager, n).currentPage # 0)

\* changePage("next") has wrapped from finalPage to page 0
C16_Witness ==
    /\ pagerOp.op = "changePage" /\ pagerOp.arg = "next" /\ ~pagerOp.err
    /\ pagerOp.from = MaxPages /\ pager.finalPage = MaxPages
    /\ pager.currentPage = 0

----------------------------------------------------------------------------
(* C17 *)

\* C17: on a Paginator that holds pages, the cursor is always below the number of
\* entries of each array it holds (embeds, files, component rows), so the page
\* view never reads past the last entry.
C17_CursorSelectsEntry ==
    /\ ("embeds" \in pager.content /\ pager.embeds # <<>>)
          => pager.currentPage < Len(pager.embeds)
    /\ ("files" \in pager.content /\ pager.files # <<>>)
          => pager.currentPage < Len(pager.files)
    /\ (pager.hasRows /\ pager.components # <<>>)
          => pager.currentPage < Len(pager.components)

----------------------------------------------------------------------------
(* C18 *)

\* C18: changePage with a direction other than "next" and "back" throws and leaves
\* currentPage and finalPage as they were.
C18_InvalidDirectionRejected ==
    [][ (pagerOp'.op = "changePage" /\ pagerOp'.arg \notin {"next", "back"})
                => /\ pagerOp'.err
                   /\ pager'.currentPage = pager.currentPage
                   /\ pager'.finalPage = pager.finalPage ]_vars

\* changePage("jump") has thrown with the cursor off page 0
C18_Witness ==
    /\ pagerOp = PagerCall("changePage", "jump", {}, 1, TRUE)
    /\ pager.currentPage = 1

----------------------------------------------------------------------------
(* C19 *)

\* C19: a loadPages(data) that returns has set currentPage to 0 and finalPage to
\* the length of every array present in data, and all arrays present in data have
\* the same length.
C19_LoadPagesResets ==
    [][ (pagerOp'.op = "loadPages" /\ ~pagerOp'.err)
            => /\ pager'.currentPage = 0
               /\ \A j, k \in pagerOp'.keys :
                     /\ Len(pager'[j]) = Len(pager'[k])
                     /\ pager'.finalPage = Len(pager'[k]) ]_vars

\* loadPages has returned on a Paginator whose cursor stood on its second page and
\* whose finalPage was another number
C19_Witness ==
    /\ pagerOp = PagerCall("loadPages", "", {"embeds", "components"}, 1, FALSE)
    /\ pager.currentPage = 0
    /\ pager.finalPage = MaxPages
    /\ Len(pager.embeds) = MaxPages /\ Len(pager.components) = MaxPages

----------------------------------------------------------------------------
(* C20 *)

\* C20: loadPages with two arrays of different lengths throws and leaves finalPage
\* as it was.
C20_MismatchKeepsFinalPage ==
    [][ ( /\ pagerOp'.op = "loadPages"
          /\ \E j, k \in pagerOp'.keys : Len(pager'[j]) # Len(pager'[k]) )
            => /\ pagerOp'.err
               /\ pager'.finalPage = pager.finalPage ]_vars

\* loadPages has thrown on MaxPages embeds with one row fewer, and finalPage is
\* neither length
C20_Witness ==
    /\ pagerOp.op = "loadPages" /\ pagerOp.err
    /\ Len(pager.embeds) = MaxPages /\ Len(pager.components) = MaxPages - 1
    /\ pager.finalPage = 0

----------------------------------------------------------------------------
(* C21 *)

\* C21: a Paginator is constructed or loaded only from a bundle that has embeds or
\* files: the call throws for a bundle with neither (no property at all, or
\* component rows only) and for a bundle with files and component rows but no
\* embeds.
C21_NeedsEmbedsOrFiles ==
    (pagerOp.op \in {"new", "loadPages"} /\ ~pagerOp.err)
        => /\ pagerOp.keys \cap {"embeds", "files"} # {}
           /\ pagerOp.keys # {"files", "components"}

----------------------------------------------------------------------------
(* C22 *)

\* every content array the Paginator holds has finalPage entries
Aligned(p) ==
    /\ "embeds" \in p.content => Len(p.embeds) = p.finalPage
    /\ "files" \in p.content => Len(p.files) = p.finalPage
    /\ p.hasRows => Len(p.components) = p.finalPage

\* C22: a Paginator as constructed holds arrays of one length, which is finalPage,
\* and a loadPages that returns keeps it so, whichever of embeds, files and
\* component rows its bundle holds; hence it is so after any sequence of loadPages
\* calls that all returned.
C22_ArraysStayAligned ==
    /\ pagerOp.op = "new" => Aligned(pager)
    /\ [][ (pagerOp'.op = "loadPages" /\ ~pagerOp'.err /\ Aligned(pager))
              => Aligned(pager') ]_vars

----------------------------------------------------------------------------
(* C23 *)

\* C23: the page view that `page` or changePage returns has rows, with or without
\* per-page rows loaded: the control row first, then the rows of the current page.
C23_ControlRowFirst ==
    (pagerOp.op \in {"page", "changePage"} /\ ~pagerOp.err)
        => /\ PageView(pager).hasComponents
           /\ PageView(pager).components =
                 <<pager.controlRow>>
                     \o (IF pager.hasRows /\ pager.currentPage < Len(pager.components)
                         THEN pager.components[pager.currentPage + 1]
                         ELSE <<>>)

----------------------------------------------------------------------------
(* C24 *)

\* C24: the cursor of a registered Paginator changes only in framePageChange and
\* updatePageContainer: spawnPageContainer, frameForward, frameBackward,
\* frameRestart and frameRefresh leave every registered cursor where it was, so a
\* pager attached again is shown at the page it was left on.
C24_CursorPersists ==
    [][ lastOp'.op \notin {"framePageChange", "updatePageContainer"}
            => \A id \in DOMAIN pagers :
                  /\ id \in DOMAIN pagers'
                  /\ pagers'[id].currentPage = pagers[id].currentPage ]_vars

\* frameForward has attached pager "0" and rendered it on its second page, where
\* an earlier framePageChange left it
C24_Witness ==
    /\ lastOp = Op("frameForward", FALSE)
    /\ rendered.view = "page"
    /\ activeContext[position - 1].pager = <<"0">>
    /\ pagers[<<"0">>].currentPage = 1
    /\ activeFramePage.content.embeds = <<"e2">>

----------------------------------------------------------------------------
(* Number blocks *)

Signs == {"minus", "mult", "plus"}

\* the magnitude a value string stands for, a trailing k read as a thousandfold
Magnitude(value) ==
    CASE value = "1" -> 1
      [] value = "10" -> 10
      [] value = "25" -> 25
      [] value = "100" -> 100
      [] value = "1k" -> 1000
      [] value = "10k" -> 10000

\* the total after evaluate(fullId) on a manager
After(nb, fullId) == evaluate(nb, fullId).nb

\* C25: an instance that evaluates one of its own arithmetic ids <sign>-<value>-c
\* moves its total t to t - m, t * m or t + m for the magnitude m of the value, one
\* that evaluates its reset-c sets the total to 0, and each returns the new total;
\* a fresh instance is at 9 after plus-10 and minus-1, at 90 after mult-10, and
\* plus-10k adds 10000
C25_EvaluateApplies ==
    /\ LET fresh == NumberBlockManager(3, <<"amount">>)
           nine == After(After(fresh, <<"plus", "10", "amount">>),
                         <<"minus", "1", "amount">>)
           ninety == After(nine, <<"mult", "10", "amount">>)
       IN  /\ nine.activeNumberTotal = 9
           /\ ninety.activeNumberTotal = 90
           /\ After(ninety, <<"plus", "10k", "amount">>).activeNumberTotal = 10090
    /\ [][ blockOp'.op = "evaluate"
             => \A who \in DOMAIN numberBlocks :
                  LET c == numberBlocks[who].options.controlId
                      t == numberBlocks[who].activeNumberTotal
                      now == numberBlocks'[who].activeNumberTotal
                  IN  /\ \A sign \in Signs :
                            ( /\ Includes(numberBlocks[who].activeBlockIds, blockOp'.id)
                              /\ Len(blockOp'.id) >= 2
                              /\ blockOp'.id = <<sign, blockOp'.id[2]>> \o c )
                                => /\ now = applySign(sign, t, Magnitude(blockOp'.id[2]))
                                   /\ blockOp'.returned[who] = Returned(TRUE, now)
                      /\ blockOp'.id = <<"reset">> \o c
                            => /\ now = 0
                               /\ blockOp'.returned[who] = Returned(TRUE, 0) ]_vars

\* the piece of a full id that names the control: the second of a reset id, the
\* third of any other; none when the id is too short
ControlSegment(id) ==
    LET at == IF id[1] = "reset" THEN 2 ELSE 3
    IN  IF Len(id) >= at THEN <<id[at]>> ELSE <<>>

\* C26: an instance that evaluates an id which is not one of its own button ids, or
\* whose controlId segment differs from its controlId, returns undefined and keeps
\* its total
C26_ForeignIdIgnored ==
    [][ blockOp'.op = "evaluate"
          => \A who \in DOMAIN numberBlocks :
               ( \/ ~Includes(numberBlocks[who].activeBlockIds, blockOp'.id)
                 \/ ControlSegment(blockOp'.id) # numberBlocks[who].options.controlId )
                    => /\ ~blockOp'.returned[who].defined
                       /\ numberBlocks'[who].activeNumberTotal
                              = numberBlocks[who].activeNumberTotal ]_vars

\* the first instance, holding 500, was given plus-10-other of the second: it
\* returned undefined and still holds 500, the second returned its new total
C26_Witness ==
    /\ blockOp.op = "evaluate"
    /\ blockOp.id = <<"plus", "10", "other">>
    /\ ~blockOp.returned["a"].defined
    /\ numberBlocks["a"].activeNumberTotal = 500
    /\ blockOp.returned["b"] = Returned(TRUE, 10)

\* C27: of two instances with different controlIds that are given every collected
\* id, an id generated by one never changes the total of the other, and every
\* arithmetic or reset id an instance generated is evaluated by that instance
C27_InstancesIndependent ==
    [][ blockOp'.op = "evaluate"
          => \A who \in DOMAIN numberBlocks :
               /\ \A other \in DOMAIN numberBlocks \ {who} :
                     Includes(numberBlocks[other].activeBlockIds, blockOp'.id)
                        => numberBlocks'[who].activeNumberTotal
                               = numberBlocks[who].activeNumberTotal
               /\ ( /\ Includes(numberBlocks[who].activeBlockIds, blockOp'.id)
                    /\ blockOp'.id[1] \in Signs \cup {"reset"} )
                      => blockOp'.returned[who].defined ]_vars

----------------------------------------------------------------------------
(* Classification of ids *)

\* the checkIf classes an id falls in under the paging actions given
Classes(paging, id) ==
    { class \in {"pagination", "ignored", "back", "cancel", "forward"} :
        CASE class = "pagination" -> isPagination(paging, id)
          [] class = "ignored" -> isIgnored(id)
          [] class = "back" -> isBackAction(paging, id)
          [] class = "cancel" -> isCancelAction(paging, id)
          [] class = "forward" -> isForwardAction(paging, id) }

\* C28: under the pagingActions and ignoreActions of every reachable state, every id
\* satisfies exactly one of isPagination, isIgnored, isBackAction, isCancelAction and
\* isForwardAction (a link button has no id and is left out)
C28_ExactlyOneClass ==
    \A id \in KnownIds \ {LinkButton.custom_id} :
        Cardinality(Classes(pagingActions, id)) = 1

\* the pager "0" was attached: its control-row ids are the paging actions, and the
\* default back-page is now a back action beside a cancel and a forward id
C28_Witness ==
    /\ lastOp = Op("frameForward", FALSE)
    /\ pagingActions = ControlRowIds(<<"0">>)
    /\ Classes(pagingActions, <<"back", "page", "0">>) = {"pagination"}
    /\ Classes(pagingActions, <<"back", "page">>) = {"back"}
    /\ Classes(pagingActions, <<"cancel", "x">>) = {"cancel"}
    /\ Classes(pagingActions, <<"next", "page">>) = {"forward"}

\* the ids of entry i of an action table; an undefined entry holds none
EntryIds(table, i) ==
    IF table[i] = Undefined THEN {} ELSE { table[i][k] : k \in 1..Len(table[i]) }

\* the orders in which the three tables can be consulted
ConsultOrders ==
    { order \in [1..3 -> {"NEXT", "BACK", "CANCEL"}] :
        \A i, j \in 1..3 : order[i] = order[j] => i = j }

\* the last entry of the table of a kind includes the id
Answers(kind, id) ==
    CASE kind = "NEXT" -> LastIncludes(nextFrameActions, id)
      [] kind = "BACK" -> LastIncludes(backFrameActions, id)
      [] kind = "CANCEL" -> LastIncludes(cancelFrameActions, id)

\* analyzeAction with the three tables consulted in the order given
analyzeInOrder(order, id) ==
    IF Includes(pagingActions, id) THEN "PAGE"
    ELSE IF Answers(order[1], id) THEN order[1]
    ELSE IF Answers(order[2], id) THEN order[2]
    ELSE IF Answers(order[3], id) THEN order[3]
    ELSE "UNKNOWN"

CollectedIds(next, back, cancel) ==
    EntryIds(next, Len(next)) \cup EntryIds(back, Len(back))
        \cup EntryIds(cancel, Len(cancel))

\* C30: the action-table entries built for a frame hold no id that is reserved when
\* they are built: those of the root frame under the initial paging actions, those
\* a frameForward appends under the paging actions it leaves, the control row of an
\* attached pager included
C30_NoReservedCollected ==
    /\ \A id \in CollectedIds(SubSeq(nextFrameActions, 1, 1),
                               SubSeq(backFrameActions, 1, 1),
                               SubSeq(cancelFrameActions, 1, 1)) :
          ~isReserved(DefaultPagingActions, id)
    /\ [][ (lastOp'.op = "frameForward"
               /\ Len(nextFrameActions') = Len(nextFrameActions) + 1)
             => \A id \in CollectedIds(nextFrameActions', backFrameActions',
                                       cancelFrameActions') :
                   ~isReserved(pagingActions', id) ]_vars

\* the rows of a frame that begin with a string select
SelectRows(frame) ==
    { r \in 1..Len(Components(frame)) : isStrSelect(Components(frame)[r][1]) }

\* the ids the button rows of a frame hold
ButtonRowIds(frame) ==
    UNION { { Components(frame)[r][c].custom_id : c \in 1..Len(Components(frame)[r]) }
            : r \in (1..Len(Components(frame))) \ SelectRows(frame) }

\* C31: when frameForward builds the tables of a frame, the id of a string select
\* that begins a row is in the frame's next set and in neither its back nor its
\* cancel set, whatever its prefix, and the other elements of that row are in none
\* of the three sets unless a button row holds them too
C31_SelectIsNext ==
    [][ (lastOp'.op = "frameForward"
           /\ Len(nextFrameActions') = Len(nextFrameActions) + 1)
          => LET frame == Last(displayFrames')
                 at == Len(nextFrameActions')
             IN  \A r \in SelectRows(frame) :
                     LET row == Components(frame)[r]
                     IN  /\ row[1].custom_id \in EntryIds(nextFrameActions', at)
                         /\ row[1].custom_id \notin EntryIds(backFrameActions', at)
                         /\ row[1].custom_id \notin EntryIds(cancelFrameActions', at)
                         /\ \A c \in 2..Len(row) :
                               row[c].custom_id \in
                                   CollectedIds(nextFrameActions', backFrameActions',
                                                cancelFrameActions')
                                      => row[c].custom_id \in ButtonRowIds(frame) ]_vars

\* a frame was pushed whose rows begin with the string selects next-page and
\* cancel-menu, the latter followed by the button back-z: both select ids are next
\* ids and back-z is in no set
C31_Witness ==
    /\ lastOp = Op("frameForward", FALSE)
    /\ Last(displayFrames) = "select"
    /\ Len(nextFrameActions) = Len(displayFrames)
    /\ Last(nextFrameActions) = << <<"next", "page">>, <<"cancel", "menu">> >>
    /\ Last(backFrameActions) = <<>>
    /\ Last(cancelFrameActions) = <<>>

----------------------------------------------------------------------------
(* Contexts and the paging overlay *)

\* the pager ids a context references
ContextPagers(context) == IF context.pager = <<>> THEN {} ELSE {context.pager}

\* C32: every recorded context references at most one pager id, and a context is
\* recorded only with a pager id that is a key of the registry at that moment, a
\* frameForward with usePager: true, which records "0", included
C32_ContextPagerRegistered ==
    /\ \A at \in DOMAIN activeContext :
          /\ Cardinality(ContextPagers(activeContext[at])) <= 1
          /\ ContextPagers(activeContext[at]) \subseteq DOMAIN pagers
    /\ [][ \A at \in DOMAIN activeContext' :
              (at \notin DOMAIN activeContext \/ activeContext'[at] # activeContext[at])
                 => ContextPagers(activeContext'[at]) \subseteq DOMAIN pagers' ]_vars

\* with the pagers "0" and "a-0" registered, a frameForward has recorded a context
\* that references "0"
C32_Witness ==
    /\ lastOp = Op("frameForward", FALSE)
    /\ DOMAIN pagers = { <<"0">>, <<"a", "0">> }
    /\ (position - 1) \in DOMAIN activeContext
    /\ activeContext[position - 1].pager = <<"0">>

\* the pager a successful frameForward has just attached to the top frame; none
\* when the last call was something else, failed or attached no pager
JustAttached ==
    IF lastOp = Op("frameForward", FALSE) /\ (position - 1) \in DOMAIN activeContext
    THEN ContextPagers(activeContext[position - 1])
    ELSE {}

\* pagingActions are the control-row ids of pager P, which are PAGE ids, and no id of
\* another registered pager is
OverlayIs(P) ==
    /\ pagingActions = ControlRowIds(P)
    /\ \A i \in 1..Len(ControlRowIds(P)) : analyzeAction(ControlRowIds(P)[i]) = "PAGE"
    /\ \A Q \in (DOMAIN pagers) \ {P} :
          \A i \in 1..Len(ControlRowIds(Q)) : analyzeAction(ControlRowIds(Q)[i]) # "PAGE"

\* C33: after a successful frameForward that attached the registered pager P,
\* pagingActions are exactly P's control-row ids, analyzeAction answers PAGE for
\* each of them and for no id of another registered pager, and the view rendered is
\* the pager's page laid over the frame
C33_AttachedPagerShown ==
    \A P \in JustAttached : OverlayIs(P) /\ rendered.view = "page"

\* the control-row ids of every registered pager
RegisteredControlIds(registry) ==
    UNION { { ControlRowIds(P)[i] : i \in 1..Len(ControlRowIds(P)) } : P \in DOMAIN registry }

\* C34: after every call that returned and changed the stack position, pagingActions
\* are the control-row ids of the pager the new top frame's context references, and
\* hold no registered pager's id when that context references none, so that no id of
\* a popped frame's pager is answered PAGE on a plain frame
C34_OverlayFollowsTop ==
    [][ (Len(displayFrames') # Len(displayFrames) /\ ~lastOp'.err)
          => LET context == activeContext'[Len(displayFrames') - 1]
             IN  IF context.pager # <<>>
                 THEN pagingActions' = ControlRowIds(context.pager)
                 ELSE \A id \in RegisteredControlIds(pagers') :
                         /\ ~Includes(pagingActions', id)
                         /\ analyze(pagingActions', nextFrameActions', backFrameActions',
                                    cancelFrameActions', id) # "PAGE" ]_vars

----------------------------------------------------------------------------
(* Suspended calls *)

\* C35: a call that is suspended at its awaited edit has made all its changes: the
\* payload it sent shows the frame then on top, and when its edit resolves, other
\* calls having run in between or not, it changes nothing of the frame stack, the
\* action tables, the contexts, the pagers, pagingActions or the active page, so
\* that the state is the one the calls produce one after the other in the order
\* they were started
C35_NothingAfterAwait ==
    [][ /\ Len(handlers') > Len(handlers)
            => /\ Last(handlers') = lastOp'.op
               /\ ~lastOp'.err
               /\ rendered'.view \in {"frame", "page"}
                     => rendered'.frame = Last(displayFrames')
        /\ Len(handlers') < Len(handlers)
            => UNCHANGED <<displayFrames, tables, activeContext, pagers, pagingActions,
                           activeFramePage>> ]_vars

\* a frameForward is suspended at its edit and the frameBackward started after it
\* has popped the frame it pushed and is suspended as well
C35_Witness ==
    /\ handlers = <<"frameForward", "frameBackward">>
    /\ lastOp = Op("frameBackward", FALSE)
    /\ position = 1
    /\ rendered.view = "frame"

\* C36: whenever analyzeAction answers PAGE for an id while the anchor message is
\* present, the framePageChange that follows with that id finds its pager in the
\* registry and completes without an error
C36_PageIdsChangePages ==
    [][ \A id \in PageChangeIds :
          (analyzeAction(id) = "PAGE" /\ anchorMsg /\ framePageChange(id))
             => /\ hasPager(<<Last(id)>>)
                /\ ~lastOp'.err ]_vars

\* C37: a frameRefresh(true) that directly follows a frameRefresh(true) which rendered
\* the paged view sends the same payload again; in particular the rendered paged view
\* has as many rows as before
C37_PagedRefreshIdempotent ==
    [][ ( /\ lastOp = Op("frameRefresh", FALSE)
          /\ rendered.view = "page"
          /\ frameRefreshPaged )
        => /\ rendered' = rendered
           /\ Len(rendered'.rows) = Len(rendered.rows) ]_vars

\* the frame stack, the three action tables and pagingActions
StackState ==
    [ displayFrames      |-> displayFrames,
      backFrameActions   |-> backFrameActions,
      cancelFrameActions |-> cancelFrameActions,
      nextFrameActions   |-> nextFrameActions,
      pagingActions      |-> pagingActions ]

\* what one frameBackward call leaves of the stack state s: nothing changes at depth
\* one; otherwise the stack and the tables are popped and, where the context arrived
\* at references a pager, pagingActions become that pager's control-row ids
BackwardOn(s) ==
    IF Len(s.displayFrames) = 1 THEN s
    ELSE LET at == Len(s.displayFrames) - 2
         IN  [ displayFrames      |-> Pop(s.displayFrames),
               backFrameActions   |-> Pop(s.backFrameActions),
               cancelFrameActions |-> Pop(s.cancelFrameActions),
               nextFrameActions   |-> Pop(s.nextFrameActions),
               pagingActions      |->
                   IF at \in DOMAIN activeContext /\ activeContext[at].pager # <<>>
                   THEN baseRowIds(pagers[activeContext[at].pager])
                   ELSE s.pagingActions ]

\* the stack state after n consecutive frameBackward calls from s
RECURSIVE BackwardTimes(_, _)
BackwardTimes(s, n) == IF n = 0 THEN s ELSE BackwardTimes(BackwardOn(s), n - 1)

\* C38: frameRestart from depth d leaves the frame stack, the action tables and
\* pagingActions that d-1 consecutive frameBackward calls leave from the same state
C38_RestartIsBackwards ==
    [][ frameRestart => StackState' = BackwardTimes(StackState, Len(displayFrames) - 1) ]_vars

\* the cursor of p after changePage(first) and then changePage(second)
CursorAfter(p, first, second) ==
    changePage(changePage(p, first).p, second).p.currentPage

\* C39: from every cursor position the Paginator reaches, changePage("next") followed
\* by changePage("back") restores currentPage, and so does changePage("back")
\* followed by changePage("next"); a changePage in one direction that directly
\* follows a changePage in the other puts the cursor back where the first one found it
C39_OppositeStepsRestore ==
    /\ [](/\ CursorAfter(pager, "next", "back") = pager.currentPage
          /\ CursorAfter(pager, "back", "next") = pager.currentPage)
    /\ [][ ( /\ pagerOp.op = "changePage" /\ pagerOp'.op = "changePage"
             /\ <<pagerOp.arg, pagerOp'.arg>> \in {<<"next", "back">>, <<"back", "next">>} )
           => pager'.currentPage = pagerOp.from ]_vars

\* changePage("next") has just wrapped the cursor from the last position, where
\* changePage("back") puts it from page 0, back to page 0
C39_Witness ==
    /\ pagerOp.op = "changePage" /\ pagerOp.arg = "next"
    /\ pagerOp.from = pager.finalPage /\ pager.finalPage = MaxPages
    /\ pager.currentPage = 0
    /\ CursorAfter(pager, "back", "next") = 0

\* C40: called while the anchor message reference is absent, frameForward,
\* frameBackward and frameRestart fail and leave the frame stack, the action tables,
\* the contexts and pagingActions as they were before the call
C40_AbsentAnchorLeavesState ==
    [][ (~anchorMsg /\ lastOp'.op \in {"frameForward", "frameBackward", "frameRestart"})
        => /\ lastOp'.err
           /\ UNCHANGED <<displayFrames, tables, activeContext, pagingActions>> ]_vars

============================================================================
